---- MODULE Spec2Model ----
(***************************************************************************)
(* AI_Enumeration.py: bootstrap nmap scan, then a bounded conversation     *)
(* loop that asks a language model for one shell command per turn, passes  *)
(* it through is_safe and runs it.  Strings are TLA+ strings; the regular  *)
(* expressions and the JSON reader of the program are computed on them     *)
(* character by character.                                                 *)
(***************************************************************************)
EXTENDS Integers, Sequences, FiniteSets, TLC

\* ------------------------------------------------------------------------
\* Characters and strings
\* ------------------------------------------------------------------------

Ch(s, i) == SubSeq(s, i, i)

LOWER == "abcdefghijklmnopqrstuvwxyz"
UPPER == "ABCDEFGHIJKLMNOPQRSTUVWXYZ"
DIGITS == "0123456789"

CharsOf(s) == {Ch(s, i) : i \in 1..Len(s)}

\* str.lower() / str.upper() of one character
LowerOf(c) ==
    IF \E i \in 1..26 : Ch(UPPER, i) = c
    THEN Ch(LOWER, CHOOSE i \in 1..26 : Ch(UPPER, i) = c)
    ELSE c

UpperOf(c) ==
    IF \E i \in 1..26 : Ch(LOWER, i) = c
    THEN Ch(UPPER, CHOOSE i \in 1..26 : Ch(LOWER, i) = c)
    ELSE c

\* the class \s of re, also what str.strip() removes: the whitespace
\* characters a TLA+ string can hold (no vertical tab, no non-ASCII space)
WS == {" ", "\t", "\n", "\r", "\f"}

\* the class \w of re
WORDCH == CharsOf(LOWER) \cup CharsOf(UPPER) \cup CharsOf(DIGITS) \cup {"_"}

SetMax(S) == CHOOSE x \in S : \A y \in S : y <= x
SetMin(S) == CHOOSE x \in S : \A y \in S : x <= y

\* str.strip()
strip(s) ==
    LET keep == {i \in 1..Len(s) : Ch(s, i) \notin WS}
    IN  IF keep = {} THEN "" ELSE SubSeq(s, SetMin(keep), SetMax(keep))

\* ------------------------------------------------------------------------
\* Regular expressions (the subset of re the program uses).  A pattern is a
\* tree of nodes [k, cs, rs]; Ends(r, s, I) is the set of positions at which
\* a match of r that starts at a position of I can end.
\* ------------------------------------------------------------------------

Cls(cs)  == [k |-> "cls",  cs |-> cs, rs |-> <<>>]
NCls(cs) == [k |-> "ncls", cs |-> cs, rs |-> <<>>]
AnyCh    == [k |-> "ncls", cs |-> {}, rs |-> <<>>]
WordB    == [k |-> "wb",   cs |-> {}, rs |-> <<>>]
EndS     == [k |-> "end",  cs |-> {}, rs |-> <<>>]
BeginL   == [k |-> "bol",  cs |-> {}, rs |-> <<>>]
Cat(rs)  == [k |-> "cat",  cs |-> {}, rs |-> rs]
Alt(rs)  == [k |-> "alt",  cs |-> {}, rs |-> rs]
Plus(r)  == [k |-> "plus", cs |-> {}, rs |-> <<r>>]
Star(r)  == [k |-> "star", cs |-> {}, rs |-> <<r>>]
Opt(r)   == [k |-> "opt",  cs |-> {}, rs |-> <<r>>]

\* re.IGNORECASE: a character matches in either case
ICase(cs) == cs \cup {LowerOf(c) : c \in cs} \cup {UpperOf(c) : c \in cs}
ClsI(cs) == Cls(ICase(cs))
\* a literal string, case-sensitive and under re.IGNORECASE
Lit(str)  == Cat([i \in 1..Len(str) |-> Cls({Ch(str, i)})])
LitI(str) == Cat([i \in 1..Len(str) |-> ClsI({Ch(str, i)})])

IsWordAt(s, i) == i >= 1 /\ i <= Len(s) /\ Ch(s, i) \in WORDCH

RECURSIVE Ends(_, _, _)
RECURSIVE EndsCat(_, _, _, _)
RECURSIVE EndsRep(_, _, _)

Ends(r, s, I) ==
    CASE r.k = "cls"  -> {i + 1 : i \in {j \in I : j <= Len(s) /\ Ch(s, j) \in r.cs}}
      [] r.k = "ncls" -> {i + 1 : i \in {j \in I : j <= Len(s) /\ Ch(s, j) \notin r.cs}}
      [] r.k = "wb"   -> {i \in I : IsWordAt(s, i - 1) # IsWordAt(s, i)}
      [] r.k = "end"  -> {i \in I : i = Len(s) + 1 \/ (i = Len(s) /\ Ch(s, i) = "\n")}
      [] r.k = "bol"  -> {i \in I : i = 1 \/ Ch(s, i - 1) = "\n"}
      [] r.k = "cat"  -> EndsCat(r.rs, 1, s, I)
      [] r.k = "alt"  -> UNION {Ends(r.rs[n], s, I) : n \in 1..Len(r.rs)}
      [] r.k = "plus" -> EndsRep(r.rs[1], s, Ends(r.rs[1], s, I))
      [] r.k = "star" -> EndsRep(r.rs[1], s, I)
      [] r.k = "opt"  -> I \cup Ends(r.rs[1], s, I)

EndsCat(rs, n, s, I) ==
    IF n > Len(rs) \/ I = {} THEN I
    ELSE EndsCat(rs, n + 1, s, Ends(rs[n], s, I))

EndsRep(r, s, I) ==
    LET more == Ends(r, s, I) \ I
    IN  IF more = {} THEN I ELSE EndsRep(r, s, I \cup more)

\* bool(pattern.search(s)): a match starting anywhere
Search(r, s) == Ends(r, s, 1..(Len(s) + 1)) # {}

\* ------------------------------------------------------------------------
\* CONFIG
\* ------------------------------------------------------------------------

MAX_STEPS == 10
TIMEOUT_SEC == 15
NMAP_TIMEOUT_SEC == 240

\* ------------------------------------------------------------------------
\* SAFETY
\* ------------------------------------------------------------------------

S1 == Plus(Cls(WS))
S0 == Star(Cls(WS))

\* The alternatives of DANGEROUS_PATTERNS that stand inside \b(?: ... )
DenyWordAlternatives ==
    << Cat(<<LitI("rm"), S1, LitI("-rf")>>),
       Cat(<<LitI("rm"), S1, LitI("-fr")>>),
       LitI("mkfs"),
       LitI("fdisk"),
       LitI("parted"),
       Cat(<<LitI("dd"), S1, LitI("if=")>>),
       Cat(<<LitI(":>"), S0, LitI("/")>>),
       Cat(<<LitI("truncate"), S1, LitI("-s")>>),
       Cat(<<LitI("chmod"), S1,
             Alt(<<Cat(<<Cls(CharsOf("01234567")), Cls(CharsOf("01234567")),
                         Cls(CharsOf("01234567"))>>),
                   Cat(<<Cls({"+", "-"}), Plus(ClsI(CharsOf("rwxXstugo")))>>)>>),
             S1, LitI("-R"), S1, LitI("/")>>),
       Cat(<<LitI("chown"), S1, LitI("-R"), S1, LitI("/")>>),
       Cat(<<LitI("mv"), S1, LitI("/"), Plus(NCls({"\n"}))>>),
       Cat(<<LitI("shutdown"), WordB>>),
       Cat(<<LitI("reboot"), WordB>>),
       Cat(<<LitI("poweroff"), WordB>>),
       Cat(<<LitI("halt"), WordB>>),
       Cat(<<LitI("swapoff"), WordB>>),
       Cat(<<LitI("kill"), S1, LitI("-9"), S1, LitI("1"), WordB>>),
       Cat(<<LitI("mount"), S1, LitI("-o"), S1, LitI("remount"),
             Cls({",", "="}), LitI("rw"), S1, LitI("/")>>) >>

\* :\(\)\s*{\s*:\s*\|\s*:\s*&\s*}\s*;\s*:\s*
ForkBombShape ==
    Cat(<<Lit(":()"), S0, Lit("{"), S0, Lit(":"), S0, Lit("|"), S0, Lit(":"), S0,
          Lit("&"), S0, Lit("}"), S0, Lit(";"), S0, Lit(":"), S0>>)

DANGEROUS_PATTERNS ==
    Alt(<<Cat(<<WordB, Alt(DenyWordAlternatives)>>),
          Cat(<<ForkBombShape, EndS>>)>>)

\* is_safe, with the shell names compared to the untrimmed command
is_safe_untrimmed(cmd) ==
    IF cmd = "" \/ strip(cmd) = "" THEN FALSE
    ELSE IF cmd \in {"bash", "sh"} THEN FALSE
    ELSE ~Search(DANGEROUS_PATTERNS, cmd)

is_safe(cmd) ==
    IF cmd = "" \/ strip(cmd) = "" THEN FALSE
    ELSE IF strip(cmd) \in {"bash", "sh"} THEN FALSE
    ELSE ~Search(DANGEROUS_PATTERNS, cmd)

\* ------------------------------------------------------------------------
\* json.loads, for JSON texts made of objects, arrays, strings (with the
\* escapes \" \\ \/ \n \t \r \f), integers, true, false and null.
\* A value is a record [t, s, n, b, items]; t is its Python type.
\* ------------------------------------------------------------------------

JNull       == [t |-> "null", s |-> "", n |-> 0, b |-> FALSE, items |-> <<>>]
JStr(x)     == [t |-> "str",  s |-> x,  n |-> 0, b |-> FALSE, items |-> <<>>]
JNum(x)     == [t |-> "int",  s |-> "", n |-> x, b |-> FALSE, items |-> <<>>]
JBool(x)    == [t |-> "bool", s |-> "", n |-> 0, b |-> x,     items |-> <<>>]
JList(xs)   == [t |-> "list", s |-> "", n |-> 0, b |-> FALSE, items |-> xs]
\* items of a dict: a sequence of [key, val], in text order
JDict(kvs)  == [t |-> "dict", s |-> "", n |-> 0, b |-> FALSE, items |-> kvs]

JFail       == [ok |-> FALSE, val |-> JNull, pos |-> 0]
JOk(v, p)   == [ok |-> TRUE,  val |-> v,     pos |-> p]

JSON_WS == {" ", "\t", "\n", "\r"}

RECURSIVE SkipWs(_, _)
SkipWs(s, i) == IF i <= Len(s) /\ Ch(s, i) \in JSON_WS THEN SkipWs(s, i + 1) ELSE i

StartsAt(s, i, w) == i + Len(w) - 1 <= Len(s) /\ SubSeq(s, i, i + Len(w) - 1) = w

DigitVal(c) == (CHOOSE i \in 1..10 : Ch(DIGITS, i) = c) - 1

Unescape(c) ==
    CASE c = "n" -> "\n" [] c = "t" -> "\t" [] c = "r" -> "\r" [] c = "f" -> "\f"
      [] OTHER -> c

\* the body of a string literal, from the character after the opening quote
RECURSIVE ScanString(_, _, _)
ScanString(s, i, acc) ==
    IF i > Len(s) THEN JFail
    ELSE LET c == Ch(s, i) IN
         IF c = "\"" THEN JOk(JStr(acc), i + 1)
         ELSE IF c = "\\"
              THEN IF i + 1 <= Len(s) /\ Ch(s, i + 1) \in {"\"", "\\", "/", "n", "t", "r", "f"}
                   THEN ScanString(s, i + 2, acc \o Unescape(Ch(s, i + 1)))
                   ELSE JFail
         ELSE IF c \in {"\n", "\t", "\r", "\f"} THEN JFail
         ELSE ScanString(s, i + 1, acc \o c)

RECURSIVE ScanDigits(_, _, _)
ScanDigits(s, i, acc) ==
    IF i <= Len(s) /\ Ch(s, i) \in CharsOf(DIGITS)
    THEN ScanDigits(s, i + 1, acc * 10 + DigitVal(Ch(s, i)))
    ELSE JOk(JNum(acc), i)

\* -?(?:0|[1-9]\d*)
ScanNumber(s, i) ==
    LET neg == Ch(s, i) = "-"
        d   == IF neg THEN i + 1 ELSE i
    IN  IF d > Len(s) \/ Ch(s, d) \notin CharsOf(DIGITS) THEN JFail
        ELSE LET r == IF Ch(s, d) = "0" THEN JOk(JNum(0), d + 1) ELSE ScanDigits(s, d, 0)
             IN  IF neg THEN JOk(JNum(0 - r.val.n), r.pos) ELSE r

RECURSIVE ScanValue(_, _)
RECURSIVE ScanMembers(_, _, _)
RECURSIVE ScanElements(_, _, _)

\* scan_once: the value that starts exactly at position i
ScanValue(s, i) ==
    IF i > Len(s) THEN JFail
    ELSE LET c == Ch(s, i) IN
         CASE c = "\"" -> ScanString(s, i + 1, "")
           [] c = "{"  -> LET j == SkipWs(s, i + 1)
                          IN  IF j <= Len(s) /\ Ch(s, j) = "}" THEN JOk(JDict(<<>>), j + 1)
                              ELSE ScanMembers(s, j, <<>>)
           [] c = "["  -> LET j == SkipWs(s, i + 1)
                          IN  IF j <= Len(s) /\ Ch(s, j) = "]" THEN JOk(JList(<<>>), j + 1)
                              ELSE ScanElements(s, j, <<>>)
           [] StartsAt(s, i, "true")  -> JOk(JBool(TRUE), i + 4)
           [] StartsAt(s, i, "false") -> JOk(JBool(FALSE), i + 5)
           [] StartsAt(s, i, "null")  -> JOk(JNull, i + 4)
           [] c = "-" \/ c \in CharsOf(DIGITS) -> ScanNumber(s, i)
           [] OTHER -> JFail

\* "key" : value ( , "key" : value )* }
ScanMembers(s, i, acc) ==
    IF i > Len(s) \/ Ch(s, i) # "\"" THEN JFail
    ELSE LET key == ScanString(s, i + 1, "") IN
         IF ~key.ok THEN JFail
         ELSE LET c == SkipWs(s, key.pos) IN
              IF c > Len(s) \/ Ch(s, c) # ":" THEN JFail
              ELSE LET v == ScanValue(s, SkipWs(s, c + 1)) IN
                   IF ~v.ok THEN JFail
                   ELSE LET e    == SkipWs(s, v.pos)
                            acc2 == Append(acc, [key |-> key.val.s, val |-> v.val])
                        IN  IF e > Len(s) THEN JFail
                            ELSE IF Ch(s, e) = "}" THEN JOk(JDict(acc2), e + 1)
                            ELSE IF Ch(s, e) = "," THEN ScanMembers(s, SkipWs(s, e + 1), acc2)
                            ELSE JFail

\* value ( , value )* ]
ScanElements(s, i, acc) ==
    LET v == ScanValue(s, i) IN
    IF ~v.ok THEN JFail
    ELSE LET e    == SkipWs(s, v.pos)
             acc2 == Append(acc, v.val)
         IN  IF e > Len(s) THEN JFail
             ELSE IF Ch(s, e) = "]" THEN JOk(JList(acc2), e + 1)
             ELSE IF Ch(s, e) = "," THEN ScanElements(s, SkipWs(s, e + 1), acc2)
             ELSE JFail

\* json.loads(s): ok = FALSE stands for JSONDecodeError
json_loads(s) ==
    LET v == ScanValue(s, SkipWs(s, 1)) IN
    IF v.ok /\ SkipWs(s, v.pos) = Len(s) + 1 THEN v ELSE JFail

\* bool(v), and the value of "v or ..." tests
Truthy(v) ==
    CASE v.t = "null" -> FALSE
      [] v.t = "bool" -> v.b
      [] v.t = "int"  -> v.n # 0
      [] v.t = "str"  -> v.s # ""
      [] OTHER        -> v.items # <<>>

HasKey(d, k) == \E i \in 1..Len(d.items) : d.items[i].key = k
\* d.get(k, default): a repeated key keeps its last value
DictGet(d, k, default) ==
    IF HasKey(d, k)
    THEN d.items[SetMax({i \in 1..Len(d.items) : d.items[i].key = k})].val
    ELSE default

\* ------------------------------------------------------------------------
\* parse_model_json
\* ------------------------------------------------------------------------

\* the start of the leftmost match of r in s (0: no match)
FirstStart(r, s) ==
    LET starts == {i \in 1..(Len(s) + 1) : Ends(r, s, {i}) # {}}
    IN  IF starts = {} THEN 0 ELSE SetMin(starts)

\* re.search(r"\{.*\}", content, flags=re.S)
BRACES == Cat(<<Lit("{"), Star(AnyCh), Lit("}")>>)

\* m.group(0) of the search for BRACES: leftmost start, greedy end
BraceFragment(content) ==
    LET a == FirstStart(BRACES, content)
    IN  SubSeq(content, a, SetMax(Ends(BRACES, content, {a})) - 1)

\* TLA+ strings cannot hold the backquote character: "~" stands for it in
\* every string of the model.
BACKQUOTE == "~"

\* (?m)^(?:~+)?([a-zA-Z0-9_-]+(?:\s+[^\n~]+)?)
LEAD     == Cat(<<BeginL, Opt(Plus(Cls({BACKQUOTE})))>>)
TOKEN    == Plus(Cls(CharsOf(LOWER) \cup CharsOf(UPPER) \cup CharsOf(DIGITS) \cup {"_", "-"}))
REST     == Plus(NCls({"\n", BACKQUOTE}))
BARE_CMD == Cat(<<LEAD, TOKEN, Opt(Cat(<<S1, REST>>))>>)

\* m.group(1) of the search for BARE_CMD: every quantifier is greedy
BareCommand(content) ==
    LET a   == FirstStart(BARE_CMD, content)
        g   == SetMax({x \in Ends(LEAD, content, {a}) : Ends(TOKEN, content, {x}) # {}})
        te  == SetMax(Ends(TOKEN, content, {g}))
        ws  == {w \in Ends(S1, content, {te}) : Ends(REST, content, {w}) # {}}
        e   == IF ws = {} THEN te ELSE SetMax(Ends(REST, content, {SetMax(ws)}))
    IN  SubSeq(content, g, e - 1)

FallbackAction(cmd) ==
    JDict(<< [key |-> "thoughts",    val |-> JStr("fallback parse")],
             [key |-> "command",     val |-> JStr(cmd)],
             [key |-> "explanation", val |-> JStr("")],
             [key |-> "done",        val |-> JBool(FALSE)] >>)

\* ok = FALSE: an exception leaves parse_model_json, err is its message;
\* stage is the attempt that returned (0: none)
ParseOk(v, n)  == [ok |-> TRUE,  val |-> v,     err |-> "",  stage |-> n]
ParseErr(e)    == [ok |-> FALSE, val |-> JNull, err |-> e,   stage |-> 0]

parse_model_json(content) ==
    LET strict == json_loads(content) IN
    IF strict.ok THEN ParseOk(strict.val, 1)
    ELSE IF FirstStart(BRACES, content) # 0
         THEN LET frag == json_loads(BraceFragment(content))
              IN  IF frag.ok THEN ParseOk(frag.val, 2)
                  ELSE ParseErr("JSONDecodeError")
    ELSE IF FirstStart(BARE_CMD, content) # 0
         THEN ParseOk(FallbackAction(BareCommand(content)), 3)
    ELSE ParseErr("Strict JSON not found")

\* ------------------------------------------------------------------------
\* truncate and parse_nmap_text
\* ------------------------------------------------------------------------

\* TLA+ strings are ASCII: "^" stands for the one character U+2026
ELLIPSIS == "^"

TRUNCATE_LIMIT == 8000

\* truncate, with nothing cut
truncate_uncut(s, limit) == s

\* truncate(s, limit), for s a string (the program never passes None)
truncate(s, limit) ==
    IF Len(s) <= limit THEN s ELSE SubSeq(s, 1, limit) \o ELLIPSIS \o "[truncated]"

LINE_BREAKS == {"\n", "\r", "\f"}

\* stdout.splitlines(); the empty piece between "\r" and "\n" of a "\r\n"
\* break is kept here, which never matches a port line
RECURSIVE splitlines(_)
splitlines(s) ==
    IF s = "" THEN <<>>
    ELSE LET brk == {i \in 1..Len(s) : Ch(s, i) \in LINE_BREAKS} IN
         IF brk = {} THEN <<s>>
         ELSE <<SubSeq(s, 1, SetMin(brk) - 1)>>
              \o splitlines(SubSeq(s, SetMin(brk) + 1, Len(s)))

\* ^(\d+)\/(tcp|udp)\s+open\s+(\S+)
PORT_NO     == Plus(Cls(CharsOf(DIGITS)))

\* PORT_HEAD, with any state in place of open
PORT_HEAD_anystate ==
    Cat(<<PORT_NO, Lit("/"), Alt(<<Lit("tcp"), Lit("udp")>>), S1, Plus(NCls(WS)), S1>>)

PORT_HEAD   == Cat(<<PORT_NO, Lit("/"), Alt(<<Lit("tcp"), Lit("udp")>>), S1, Lit("open"), S1>>)
PORT_LINE   == Cat(<<PORT_HEAD, Plus(NCls(WS))>>)

\* the record of one stripped line that re.match accepts
PortRecord(line) ==
    LET d == SetMax(Ends(PORT_NO, line, {1}))
        h == SetMax(Ends(PORT_HEAD, line, {1}))
        e == SetMax(Ends(PORT_LINE, line, {1}))
    IN  [port    |-> ScanDigits(line, 1, 0).val.n,
         proto   |-> SubSeq(line, d + 1, d + 3),
         service |-> SubSeq(line, h, e - 1)]

RECURSIVE PortRecords(_, _)
PortRecords(lines, n) ==
    IF n > Len(lines) THEN <<>>
    ELSE LET line == strip(lines[n]) IN
         (IF Ends(PORT_LINE, line, {1}) # {} THEN <<PortRecord(line)>> ELSE <<>>)
         \o PortRecords(lines, n + 1)

parse_nmap_text(stdout) == PortRecords(splitlines(stdout), 1)

\* ------------------------------------------------------------------------
\* The environment: what nmap, the model backend and the shell may answer
\* ------------------------------------------------------------------------

\* In at most MaxVaried iterations the backend and the shell answer freely;
\* afterwards each repeats its last answer.
MaxVaried == 2

\* subprocess.run: raised = "" when the process completed
Completed(rc, out, err) == [raised |-> "", returncode |-> rc, stdout |-> out, stderr |-> err]
Raised(exc)             == [raised |-> exc, returncode |-> 0, stdout |-> "", stderr |-> ""]

NmapRuns ==
    { Completed(0, "PORT     STATE    SERVICE\n3306/tcp open     mysql\n80/tcp   filtered http\n", ""),
      Completed(1, "", "Failed to resolve target"),
      Completed(143, "PORT   STATE SERVICE\n22/tcp open  ssh\n", "Terminated"),
      Raised("TimeoutExpired") }

ShellRuns ==
    { Completed(0, "banner", ""),
      Raised("TimeoutExpired"),
      Raised("OSError") }

\* resp["message"]["content"] of an action query
Contents ==
    { "{\"command\":\"echo | nc -v -w 3 10.0.0.5 3306\",\"done\":false}",
      "{\"command\":\"rm -rf /var/www\",\"done\":false}",
      "{\"command\":\":> /etc/passwd\",\"done\":false}",
      "{\"command\":\"id\",\"done\":true}",
      "{\"command\":\"  \",\"done\":false}",
      "[1]",
      "{\"command\":5,\"done\":true}",
      "Next: {\"command\":\" curl -I -m 5 http://10.0.0.5:80 \"} ok",
      "ls {bad}",
      "uname -a",
      "",
      "bash" }

\* the reply to the summary query
SummaryText == " Found mysql on 3306. "

\* ------------------------------------------------------------------------
\* What main computes from a reply (lines 151-171)
\* ------------------------------------------------------------------------

\* j.get("command") or ""
CommandField(j) ==
    LET c == DictGet(j, "command", JNull) IN IF Truthy(c) THEN c ELSE JStr("")

\* line 157 raises AttributeError: j has no get, or the command has no strip
RaisesAttributeError(j) == j.t # "dict" \/ CommandField(j).t # "str"

\* line 157
CommandOf(j) == strip(CommandField(j).s)

\* line 158
DoneOf(j) == Truthy(DictGet(j, "done", JBool(FALSE)))

\* What lines 151-171 compute from a reply: the path main takes (branch),
\* the attempt of parse_model_json that returned, the exception's message,
\* and command, done and the gate's verdict where they are computed.
TurnRecord(branch, p, cmd, done, safe) ==
    [branch |-> branch, stage |-> p.stage, err |-> p.err,
     command |-> cmd, done |-> done, safe |-> safe]

\* Gated, with the gate's verdict ignored
Gated_ignored(p, cmd, done, safe) ==
    TurnRecord("run", p, cmd, done, safe)

\* lines 171-184, given is_safe(command)
Gated(p, cmd, done, safe) ==
    TurnRecord(IF safe THEN "run" ELSE "blocked", p, cmd, done, safe)

\* lines 161-171, given command and done
Decided(p, cmd, done) ==
    IF done \/ cmd = "" THEN TurnRecord("done", p, cmd, done, FALSE)
    ELSE Gated(p, cmd, done, is_safe(cmd))

\* lines 151-158, given what parse_model_json did
Parsed(p) ==
    IF ~p.ok THEN TurnRecord("parser_error", p, "", FALSE, FALSE)
    ELSE IF RaisesAttributeError(p.val) THEN TurnRecord("attribute_error", p, "", FALSE, FALSE)
    ELSE Decided(p, CommandOf(p.val), DoneOf(p.val))

Turn(c) == Parsed(parse_model_json(c))

\* Turn for every reply of the backend
TurnTable == {<<c, Turn(c)>> : c \in Contents}

\* ------------------------------------------------------------------------
\* MAIN
\* ------------------------------------------------------------------------

VARIABLES
    pc,          \* where main() stands
    step,        \* the loop variable of "for step in range(1, MAX_STEPS + 1)"
    messages,    \* the transcript
    content,     \* the last reply to an action query
    command,     \* the command of this iteration
    scan,        \* bootstrap_record
    final_text,  \* the summary
    chats,       \* the calls of ollama.chat so far
    gated,       \* the calls of is_safe so far
    executed,    \* the calls of run_cmd inside the loop so far
    files,       \* the files write_json wrote, in order
    reason,      \* why the loop ended
    varied,      \* iterations answered freely so far
    fresh,       \* this iteration is answered freely
    last_run,    \* the last answer of the shell
    Turns,       \* Turn of every reply, tabulated once: the model checker
                 \* evaluates a definition anew at each use
    scans,       \* the calls of run_cmd at line 122 so far
    arg,         \* the argument of a function called on its own
    ret          \* what that call returned

vars == <<pc, step, messages, content, command, scan, final_text, chats, gated,
          executed, files, reason, varied, fresh, last_run, Turns, scans, arg, ret>>

Msg(role, kind) ==
    [role |-> role, kind |-> kind, text |-> "", command |-> "", returncode |-> "",
     stdout |-> "", stderr |-> "", ports |-> <<>>]

\* f"step_{step:02d}_{what}.json"
StepFile(n, what) ==
    "step_" \o Ch(DIGITS, (n \div 10) + 1) \o Ch(DIGITS, (n % 10) + 1) \o "_" \o what \o ".json"

\* Outcome, with the exception's message dropped
Outcome_silent(run, timeout) ==
    IF run.raised = ""
    THEN [returncode |-> ToString(run.returncode), stdout |-> run.stdout, stderr |-> run.stderr]
    ELSE [returncode |-> "null", stdout |-> "", stderr |-> ""]

\* rc, out, err after the try/except around run_cmd (lines 185-191)
Outcome(run, timeout) ==
    CASE run.raised = "" ->
            [returncode |-> ToString(run.returncode), stdout |-> run.stdout, stderr |-> run.stderr]
      [] run.raised = "TimeoutExpired" ->
            [returncode |-> "null", stdout |-> "",
             stderr |-> "Timeout after " \o ToString(timeout) \o "s"]
      [] OTHER ->
            [returncode |-> "null", stdout |-> "",
             stderr |-> "Execution error: " \o run.raised]

Init ==
    /\ pc = "BOOTSTRAP"
    /\ step = 0
    /\ messages = <<>>
    /\ content = ""
    /\ command = ""
    /\ scan = [returncode |-> "", stdout |-> "", stderr |-> "", parsed_open |-> <<>>]
    /\ final_text = ""
    /\ chats = <<>>
    /\ gated = <<>>
    /\ executed = <<>>
    /\ files = <<>>
    /\ reason = ""
    /\ varied = 0
    /\ fresh = FALSE
    /\ last_run = Completed(0, "", "")
    /\ Turns = [c \in Contents |-> (CHOOSE t \in TurnTable : t[1] = c)[2]]
    /\ scans = <<>>
    /\ arg = ""
    /\ ret = ""

\* lines 119-143: the scan, its record, the seed of the conversation
Bootstrap ==
    /\ pc = "BOOTSTRAP"
    /\ \E run \in NmapRuns :
          LET o == Outcome(run, NMAP_TIMEOUT_SEC)
              open_ports == parse_nmap_text(o.stdout)
          IN  /\ scan' = [returncode |-> o.returncode,
                          stdout |-> truncate(o.stdout, 120000),
                          stderr |-> truncate(o.stderr, 20000),
                          parsed_open |-> open_ports]
              /\ messages' =
                    << Msg("system", "SYSTEM_PROMPT"),
                       [Msg("user", "open_ports_summary") EXCEPT !.ports = open_ports],
                       [Msg("user", "raw_nmap_stdout_truncated")
                            EXCEPT !.stdout = truncate(o.stdout, 40000)],
                       Msg("user", "GOAL") >>
          /\ scans' = Append(scans, run)
    /\ files' = Append(files, StepFile(0, "nmap_allports"))
    /\ step' = 1
    /\ pc' = "LOOP"
    /\ UNCHANGED <<content, command, final_text, chats, gated, executed, reason,
                   varied, fresh, last_run, Turns, arg, ret>>

\* ollama.chat answers an action query: the backend's reply is any of Contents
\* while it answers freely, and its previous reply afterwards
Replies == IF varied < MaxVaried THEN Contents ELSE {content}

\* Query, issued also while run_cmd has not returned
Query_overlap ==
    /\ pc \in {"LOOP", "EXEC"}
    /\ step <= MAX_STEPS
    /\ \E c \in Replies : content' = c
    /\ fresh' = (varied < MaxVaried)
    /\ varied' = IF varied < MaxVaried THEN varied + 1 ELSE varied
    /\ chats' = Append(chats, [kind |-> "action", step |-> step, sent |-> Len(messages)])
    /\ files' = Append(files, StepFile(step, "assistant_raw"))
    /\ pc' = "REPLY"
    /\ UNCHANGED <<step, messages, command, scan, final_text, gated, executed, reason,
                   last_run, Turns, scans, arg, ret>>

\* Query, with the reply kept in the transcript as an assistant message
Query_keeps_reply ==
    /\ pc = "LOOP"
    /\ step <= MAX_STEPS
    /\ \E c \in Replies :
          /\ content' = c
          /\ messages' = Append(messages, [Msg("assistant", "reply") EXCEPT !.text = c])
    /\ fresh' = (varied < MaxVaried)
    /\ varied' = IF varied < MaxVaried THEN varied + 1 ELSE varied
    /\ chats' = Append(chats, [kind |-> "action", step |-> step, sent |-> Len(messages)])
    /\ files' = Append(files, StepFile(step, "assistant_raw"))
    /\ pc' = "REPLY"
    /\ UNCHANGED <<step, command, scan, final_text, gated, executed, reason,
                   last_run, Turns, scans, arg, ret>>

\* lines 147-149: the action query and the raw reply's log file
Query ==
    /\ pc = "LOOP"
    /\ step <= MAX_STEPS
    /\ \E c \in Replies : content' = c
    /\ fresh' = (varied < MaxVaried)
    /\ varied' = IF varied < MaxVaried THEN varied + 1 ELSE varied
    /\ chats' = Append(chats, [kind |-> "action", step |-> step, sent |-> Len(messages)])
    /\ files' = Append(files, StepFile(step, "assistant_raw"))
    /\ pc' = "REPLY"
    /\ UNCHANGED <<step, messages, command, scan, final_text, gated, executed, reason,
                   last_run, Turns,
                   scans, arg, ret>>

\* ParserError, with no feedback appended before "continue"
ParserError_mute ==
    /\ pc = "REPLY"
    /\ Turns[content].branch = "parser_error"
    /\ step' = step + 1
    /\ pc' = "LOOP"
    /\ UNCHANGED <<messages, content, command, scan, final_text, chats, gated, executed,
                   files, reason, varied, fresh, last_run, Turns,
                   scans, arg, ret>>

\* ParserError, with the iteration not counted
ParserError_free ==
    /\ pc = "REPLY"
    /\ Turns[content].branch = "parser_error"
    /\ messages' = Append(messages,
          [Msg("user", "parser_error") EXCEPT
              !.text = "Parser error: " \o Turns[content].err
                       \o ". Please reply with strict JSON only."])
    /\ pc' = "LOOP"
    /\ UNCHANGED <<step, content, command, scan, final_text, chats, gated, executed, files,
                   reason, varied, fresh, last_run, Turns, scans, arg, ret>>

\* lines 153-155
ParserError ==
    /\ pc = "REPLY"
    /\ Turns[content].branch = "parser_error"
    /\ messages' = Append(messages,
          [Msg("user", "parser_error") EXCEPT
              !.text = "Parser error: " \o Turns[content].err
                       \o ". Please reply with strict JSON only."])
    /\ step' = step + 1
    /\ pc' = "LOOP"
    /\ UNCHANGED <<content, command, scan, final_text, chats, gated, executed, files,
                   reason, varied, fresh, last_run, Turns,
                   scans, arg, ret>>

\* line 157 raises and nothing in main catches it: the process ends
AttributeError ==
    /\ pc = "REPLY"
    /\ Turns[content].branch = "attribute_error"
    /\ pc' = "FAULT"
    /\ UNCHANGED <<step, messages, content, command, scan, final_text, chats, gated,
                   executed, files, reason, varied, fresh, last_run, Turns,
                   scans, arg, ret>>

\* lines 157-163: done, or no command; the closing instruction is appended
Finish ==
    /\ pc = "REPLY"
    /\ Turns[content].branch = "done"
    /\ command' = Turns[content].command
    /\ reason' = IF Turns[content].done THEN "model_signalled_done" ELSE "empty_command"
    /\ files' = Append(files, StepFile(step, "assistant"))
    /\ messages' = Append(messages,
          [Msg("user", "closing") EXCEPT
              !.text = "Provide a concise final summary of findings and suggested manual next steps."])
    /\ pc' = "SUMMARY"
    /\ UNCHANGED <<step, content, scan, final_text, chats, gated, executed, varied,
                   fresh, last_run, Turns,
                   scans, arg, ret>>

\* Blocked, with the command run all the same before the feedback
Blocked_run ==
    /\ pc = "REPLY"
    /\ Turns[content].branch = "blocked"
    /\ LET cmd == Turns[content].command IN
          /\ command' = cmd
          /\ gated' = Append(gated, [step |-> step, command |-> cmd,
                                     safe |-> Turns[content].safe])
          /\ executed' = Append(executed, [step |-> step, command |-> cmd, run |-> last_run])
          /\ messages' = Append(messages,
                [Msg("user", "blocked_by_policy") EXCEPT
                    !.text = "Command blocked by policy. Propose a safe, quick alternative.",
                    !.command = cmd])
    /\ files' = files \o <<StepFile(step, "assistant"), StepFile(step, "blocked")>>
    /\ step' = step + 1
    /\ pc' = "LOOP"
    /\ UNCHANGED <<content, scan, final_text, chats, reason, varied, fresh, last_run, Turns,
                   scans, arg, ret>>

\* lines 171-182
Blocked ==
    /\ pc = "REPLY"
    /\ Turns[content].branch = "blocked"
    /\ LET cmd == Turns[content].command IN
          /\ command' = cmd
          /\ gated' = Append(gated, [step |-> step, command |-> cmd,
                                     safe |-> Turns[content].safe])
          /\ messages' = Append(messages,
                [Msg("user", "blocked_by_policy") EXCEPT
                    !.text = "Command blocked by policy. Propose a safe, quick alternative.",
                    !.command = cmd])
    /\ files' = files \o <<StepFile(step, "assistant"), StepFile(step, "blocked")>>
    /\ step' = step + 1
    /\ pc' = "LOOP"
    /\ UNCHANGED <<content, scan, final_text, chats, executed, reason, varied, fresh,
                   last_run, Turns,
                   scans, arg, ret>>

\* lines 171, 184: the gate lets the command through, run_cmd is called
Admit ==
    /\ pc = "REPLY"
    /\ Turns[content].branch = "run"
    /\ LET cmd == Turns[content].command IN
          /\ command' = cmd
          /\ gated' = Append(gated, [step |-> step, command |-> cmd,
                                     safe |-> Turns[content].safe])
    /\ files' = Append(files, StepFile(step, "assistant"))
    /\ pc' = "EXEC"
    /\ UNCHANGED <<step, messages, content, scan, final_text, chats, executed, reason,
                   varied, fresh, last_run, Turns,
                   scans, arg, ret>>

\* what subprocess.run may do with the command of this iteration
Runs == IF fresh THEN ShellRuns ELSE {last_run}

\* ResultMessage, naming the shell invocation in place of the command
ResultMessage_argv(cmd, o) ==
    [Msg("user", "result") EXCEPT
        !.command = "bash -lc " \o cmd, !.returncode = o.returncode,
        !.stdout = truncate(o.stdout, TRUNCATE_LIMIT),
        !.stderr = truncate(o.stderr, TRUNCATE_LIMIT)]

\* the message of line 201
ResultMessage(cmd, o) ==
    [Msg("user", "result") EXCEPT
        !.command = cmd, !.returncode = o.returncode,
        !.stdout = truncate(o.stdout, TRUNCATE_LIMIT),
        !.stderr = truncate(o.stderr, TRUNCATE_LIMIT)]

\* Execute, with the result written over the last message
Execute_overwrite ==
    /\ pc = "EXEC"
    /\ \E run \in Runs :
          /\ last_run' = run
          /\ executed' = Append(executed, [step |-> step, command |-> command, run |-> run])
          /\ messages' = [messages EXCEPT
                ![Len(messages)] = ResultMessage(command, Outcome(run, TIMEOUT_SEC))]
    /\ files' = Append(files, StepFile(step, "result"))
    /\ step' = step + 1
    /\ pc' = "LOOP"
    /\ UNCHANGED <<content, command, scan, final_text, chats, gated, reason, varied, fresh,
                   Turns, scans, arg, ret>>

\* lines 185-201: run_cmd returns or raises, the result is logged and appended
Execute ==
    /\ pc = "EXEC"
    /\ \E run \in Runs :
          /\ last_run' = run
          /\ executed' = Append(executed, [step |-> step, command |-> command, run |-> run])
          /\ messages' = Append(messages, ResultMessage(command, Outcome(run, TIMEOUT_SEC)))
    /\ files' = Append(files, StepFile(step, "result"))
    /\ step' = step + 1
    /\ pc' = "LOOP"
    /\ UNCHANGED <<content, command, scan, final_text, chats, gated, reason, varied, fresh,
                   Turns,
                   scans, arg, ret>>

\* line 204: the for loop is exhausted
StepLimit ==
    /\ pc = "LOOP"
    /\ step > MAX_STEPS
    /\ reason' = "step_limit_reached"
    /\ messages' = Append(messages,
          [Msg("user", "closing") EXCEPT
              !.text = "Max step limit reached. Provide a concise summary of findings so far."])
    /\ pc' = "SUMMARY"
    /\ UNCHANGED <<step, content, command, scan, final_text, chats, gated, executed,
                   files, varied, fresh, last_run, Turns,
                   scans, arg, ret>>

\* lines 164-169 and 205-209: the summary query and its record
FinalSummary ==
    /\ pc = "SUMMARY"
    /\ chats' = Append(chats, [kind |-> "summary", step |-> step, sent |-> Len(messages)])
    /\ final_text' = strip(SummaryText)
    /\ files' = Append(files, "final_summary.json")
    /\ pc' = "DONE"
    /\ UNCHANGED <<step, messages, content, command, scan, gated, executed, reason,
                   varied, fresh, last_run, Turns,
                   scans, arg, ret>>

Next ==
    \/ Bootstrap
    \/ Query
    \/ ParserError
    \/ AttributeError
    \/ Finish
    \/ Blocked
    \/ Admit
    \/ Execute
    \/ StepLimit
    \/ FinalSummary

Spec == Init /\ [][Next]_vars
\* ------------------------------------------------------------------------
\* Properties
\* ------------------------------------------------------------------------

Count(seq, x) == Cardinality({k \in 1..Len(seq) : seq[k] = x})
ActionQueries == Cardinality({k \in 1..Len(chats) : chats[k].kind = "action"})
SummaryQueries == Cardinality({k \in 1..Len(chats) : chats[k].kind = "summary"})
Last(seq) == seq[Len(seq)]

\* C1: every command handed to run_cmd inside the loop was classified SAFE by
\* is_safe in the same iteration, and no command that is_safe classified as
\* BLOCKED in the run was executed; while run_cmd is in flight the command is
\* the one the gate has just admitted.
C1_ExecutedWereAdmitted ==
    /\ \A i \in 1..Len(executed) :
          /\ \E k \in 1..Len(gated) :
                /\ gated[k].step = executed[i].step
                /\ gated[k].command = executed[i].command
                /\ gated[k].safe
          /\ \A k \in 1..Len(gated) :
                gated[k].command = executed[i].command => gated[k].safe
    /\ pc = "EXEC" =>
          /\ gated # <<>>
          /\ Last(gated) = [step |-> step, command |-> command, safe |-> TRUE]

\* a run in which one command was blocked and another executed
C1_Witness ==
    /\ \E k \in 1..Len(gated) : ~gated[k].safe
    /\ \E i \in 1..Len(executed) : executed[i].step > 1

\* C2: the run never ends with an unhandled fault, whatever the model replies.
C2_NoUnhandledFault == pc # "FAULT"

\* C3: the run reaches DONE, after at most MAX_STEPS action queries and at
\* most MAX_STEPS executed commands: a run that can go no further is DONE.
C3_DoneWithinMaxSteps ==
    /\ ActionQueries <= MAX_STEPS
    /\ Len(executed) <= MAX_STEPS
    /\ (pc = "DONE" \/ ENABLED Next)

\* C4: every run produces exactly one final summary record: once the run has
\* ended, the summary was requested once, after the closing instruction, and
\* recorded once, and it is the last query of the run.
C4_OneSummaryPerRun ==
    /\ SummaryQueries <= 1
    /\ Count(files, "final_summary.json") = SummaryQueries
    /\ SummaryQueries = 1 =>
          /\ Last(chats).kind = "summary"
          /\ Last(chats).sent = Len(messages)
          /\ Last(messages).kind = "closing"
          /\ pc = "DONE"
    /\ ~ENABLED Next => SummaryQueries = 1

\* one of the destructive shapes of the deny-list, at any position of cmd
ContainsDenyShape(cmd) ==
    \/ Search(Alt(DenyWordAlternatives), cmd)
    \/ Search(ForkBombShape, cmd)

\* C5: is_safe returns BLOCKED for every command that contains one of the
\* deny-list shapes, at any position and in any casing, and SAFE for
\* curl -I -m 5 http://10.0.0.5:80.
C5_DenyShapesBlocked ==
    \A k \in 1..Len(gated) :
        /\ ContainsDenyShape(gated[k].command) => ~gated[k].safe
        /\ gated[k].command = "curl -I -m 5 http://10.0.0.5:80" => gated[k].safe

FeedbackKinds == {"parser_error", "blocked_by_policy", "result"}

\* C6: the k-th action query is sent the 4 seed messages followed by exactly
\* k-1 feedback messages, one per earlier iteration and in iteration order;
\* the message of an iteration that executed or blocked a command is the one
\* result message naming that command.
C6_TranscriptShape ==
    /\ \A k \in 1..Len(chats) :
          chats[k].kind = "action" => chats[k].step = k /\ chats[k].sent = 4 + (k - 1)
    /\ pc \in {"LOOP", "REPLY", "EXEC"} =>
          /\ Len(messages) = 4 + (step - 1)
          /\ <<messages[1].kind, messages[2].kind, messages[3].kind, messages[4].kind>>
                = <<"SYSTEM_PROMPT", "open_ports_summary", "raw_nmap_stdout_truncated", "GOAL">>
          /\ \A n \in 1..(step - 1) : messages[4 + n].kind \in FeedbackKinds
    /\ \A i \in 1..Len(executed) :
          executed[i].step < step =>
              /\ messages[4 + executed[i].step].kind = "result"
              /\ messages[4 + executed[i].step].command = executed[i].command
    /\ \A k \in 1..Len(gated) :
          ~gated[k].safe =>
              /\ messages[4 + gated[k].step].kind = "blocked_by_policy"
              /\ messages[4 + gated[k].step].command = gated[k].command
    /\ \A n \in 1..Len(messages) :
          /\ messages[n].kind = "result" =>
                \E i \in 1..Len(executed) : executed[i].step = n - 4
          /\ messages[n].kind = "blocked_by_policy" =>
                \E k \in 1..Len(gated) : gated[k].step = n - 4 /\ ~gated[k].safe

\* the third action query, after a parser error and a blocked command
C6_Witness ==
    /\ pc = "REPLY"
    /\ step = 3
    /\ messages[5].kind = "parser_error"
    /\ messages[6].kind = "blocked_by_policy"

\* the three attempts of parse_model_json all fail on the reply c
AllStagesFail(c) ==
    /\ ~json_loads(c).ok
    /\ FirstStart(BRACES, c) # 0 => ~json_loads(BraceFragment(c)).ok
    /\ FirstStart(BARE_CMD, c) = 0

\* C7: a parser-error message is appended only when the strict parse, the
\* parse of a fragment in braces and the salvage of a bare command all fail.
C7_ErrorOnlyIfAllStagesFail ==
    (pc = "LOOP" /\ step > 1 /\ Last(messages).kind = "parser_error")
        => AllStagesFail(content)

\* the reply being handled proposes a non-empty command that is_safe rejects
BlockedProposal ==
    /\ pc = "REPLY"
    /\ Turns[content].command # ""
    /\ ~Turns[content].done
    /\ ~Turns[content].safe

\* C8: when the proposed non-empty command is classified BLOCKED, the
\* iteration runs nothing, appends exactly one blocked_by_policy message that
\* names the command, and control returns to the loop for the next iteration.
C8_BlockedIsFedBack ==
    [][BlockedProposal =>
          /\ executed' = executed
          /\ Len(messages') = Len(messages) + 1
          /\ SubSeq(messages', 1, Len(messages)) = messages
          /\ Last(messages').kind = "blocked_by_policy"
          /\ Last(messages').command = Turns[content].command
          /\ pc' = "LOOP"
          /\ step' = step + 1]_vars

\* rm -rf /var/www proposed at step 1: iteration 2 is reached, nothing ran
C8_Witness ==
    /\ pc = "REPLY"
    /\ step = 2
    /\ executed = <<>>
    /\ Len(messages) = 5
    /\ messages[5].kind = "blocked_by_policy"
    /\ messages[5].command = "rm -rf /var/www"

\* the reply c parses to an action with done = true
SignalsDone(c) ==
    /\ parse_model_json(c).ok
    /\ parse_model_json(c).val.t = "dict"
    /\ DoneOf(parse_model_json(c).val)

\* C9: when the parsed action has done = true, the iteration appends the
\* closing instruction and goes to the summary query, with no command gated
\* or executed.
C9_DoneEndsTheLoop ==
    [][(pc = "REPLY" /\ SignalsDone(content)) =>
          /\ pc' = "SUMMARY"
          /\ messages' = Append(messages, Last(messages'))
          /\ Last(messages').kind = "closing"
          /\ gated' = gated
          /\ executed' = executed]_vars

\* C10: when run_cmd times out or raises, the iteration appends exactly one
\* result message with no exit code, empty stdout and a non-empty stderr
\* (naming the timeout for a timeout) and control returns to the loop.
C10_FaultsAreFedBack ==
    [][(pc = "EXEC" /\ Len(executed') = Len(executed) + 1
            /\ Last(executed').run.raised # "") =>
          /\ Len(messages') = Len(messages) + 1
          /\ SubSeq(messages', 1, Len(messages)) = messages
          /\ Last(messages').kind = "result"
          /\ Last(messages').command = command
          /\ Last(executed').command = command
          /\ Last(messages').returncode = "null"
          /\ Last(messages').stdout = ""
          /\ Last(messages').stderr # ""
          /\ (Last(executed').run.raised = "TimeoutExpired"
                => Last(messages').stderr = "Timeout after 15s")
          /\ pc' = "LOOP"
          /\ step' = step + 1]_vars

\* a timeout at step 1 and another fault at step 2, the loop still going
C10_Witness ==
    /\ pc = "REPLY"
    /\ step = 3
    /\ Len(executed) = 2
    /\ executed[1].run.raised = "TimeoutExpired"
    /\ executed[2].run.raised = "OSError"
    /\ messages[5].returncode = "null"
    /\ messages[6].stderr = "Execution error: OSError"

\* the corrective feedback messages in the transcript
ParserErrors ==
    Cardinality({n \in 1..Len(messages) : messages[n].kind = "parser_error"})

\* C11: a parse failure uses up one iteration: at the head of the loop the
\* iterations used so far are the parse failures plus the gated commands, so
\* with k parse failures at most MAX_STEPS - k commands are gated or executed;
\* a run in which every reply fails to parse ends, with step_limit_reached,
\* MAX_STEPS action queries, MAX_STEPS feedback messages and nothing executed.
C11_ParseFailureUsesASlot ==
    /\ ParserErrors + Len(gated) <= MAX_STEPS
    /\ Len(executed) <= Len(gated)
    /\ pc = "LOOP" => step - 1 = ParserErrors + Len(gated)
    /\ (pc \in {"SUMMARY", "DONE"} /\ ParserErrors = ActionQueries) =>
          /\ reason = "step_limit_reached"
          /\ ActionQueries = MAX_STEPS
          /\ ParserErrors = MAX_STEPS
          /\ gated = <<>>
          /\ executed = <<>>
    /\ (ParserErrors = ActionQueries /\ ~ENABLED Next) => pc = "DONE"

\* a finished run in which every one of the MAX_STEPS replies failed to parse
C11_Witness ==
    /\ pc = "DONE"
    /\ ParserErrors = MAX_STEPS
    /\ ActionQueries = MAX_STEPS
    /\ reason = "step_limit_reached"

SeedKinds == <<"SYSTEM_PROMPT", "open_ports_summary", "raw_nmap_stdout_truncated", "GOAL">>

\* C12: the scan is run once and never again; whatever it did, its record is
\* written, the transcript is seeded from it and the loop is entered; a scan
\* that timed out has no exit code, the timeout message and no output, and a
\* scan that timed out or failed has no open services.
C12_ScanOnceThenLoop ==
    /\ Len(scans) <= 1
    /\ Count(files, StepFile(0, "nmap_allports")) = Len(scans)
    /\ pc # "BOOTSTRAP" =>
          /\ Len(scans) = 1
          /\ step >= 1
          /\ Len(messages) >= 4
          /\ \A n \in 1..4 : messages[n].kind = SeedKinds[n]
          /\ messages[2].ports = scan.parsed_open
          /\ scans[1].raised = "TimeoutExpired" =>
                /\ scan.returncode = "null"
                /\ scan.stdout = ""
                /\ scan.stderr = "Timeout after 240s"
          /\ (scans[1].raised # "" \/ scans[1].returncode # 0) => scan.parsed_open = <<>>

\* the result messages in the transcript
ResultMessages ==
    Cardinality({n \in 1..Len(messages) : messages[n].kind = "result"})

\* the commands the gate let through
Admitted == Cardinality({k \in 1..Len(gated) : gated[k].safe})

\* while run_cmd is in flight the query of this iteration has returned and
\* the gate has decided; no iteration executes twice
SequentialOrder ==
    /\ Len(executed) <= ActionQueries
    /\ \A i \in 1..Len(executed) : \A j \in 1..Len(executed) :
          i < j => executed[i].step < executed[j].step
    /\ pc = "EXEC" =>
          /\ ActionQueries = step
          /\ Last(chats) = [kind |-> "action", step |-> step, sent |-> Len(messages)]
          /\ Last(gated).step = step
          /\ Len(executed) = Admitted - 1
          /\ ResultMessages = Len(executed)

\* a query is issued only when every admitted command has run and its outcome
\* is in the transcript; the gate decides only on the reply of this
\* iteration's query; run_cmd starts only after the gate, and no query is
\* issued while it runs
SequentialSteps ==
    /\ Len(chats') > Len(chats) =>
          /\ pc \in {"LOOP", "SUMMARY"}
          /\ Len(executed) = Admitted
          /\ ResultMessages = Len(executed)
          /\ executed' = executed /\ gated' = gated
    /\ gated' # gated =>
          /\ pc = "REPLY"
          /\ Last(chats).kind = "action" /\ Last(chats).step = step
          /\ Len(gated') = Len(gated) + 1
          /\ chats' = chats
    /\ executed' # executed =>
          /\ pc = "EXEC"
          /\ Len(executed') = Len(executed) + 1
          /\ Last(executed').step = Last(gated).step
          /\ Last(gated).safe
          /\ chats' = chats /\ gated' = gated

\* C15: the run is sequential: in each iteration the query returns before the
\* command is decided, the decision precedes the execution, the execution
\* and its result message precede the next query; one command at most is
\* executed per query, and no query is issued while a command runs.
C15_Sequential == []SequentialOrder /\ [][SequentialSteps]_vars

\* the second query has returned after the first iteration's command ran
C15_Witness ==
    /\ pc = "EXEC"
    /\ step = 2
    /\ Len(executed) = 1
    /\ executed[1].step = 1
    /\ ResultMessages = 1

\* C17: the transcript is append-only: every step leaves it as it is or
\* appends to it, so what it held before the step is a prefix of what it
\* holds after; no message is removed, moved or rewritten.
C17_AppendOnly ==
    [][/\ Len(messages') >= Len(messages)
       /\ SubSeq(messages', 1, Len(messages)) = messages]_vars

\* a finished run whose transcript grew by a result, nine parser errors and
\* the closing instruction
C17_Witness ==
    /\ pc = "DONE"
    /\ Len(messages) = 4 + MAX_STEPS + 1
    /\ messages[5].kind = "result"
    /\ messages[6].kind = "parser_error"
    /\ messages[4 + MAX_STEPS].kind = "parser_error"
    /\ Last(messages).kind = "closing"

NC_MYSQL == "echo | nc -v -w 3 10.0.0.5 3306"

\* the scan found the one open port 3306/tcp mysql and the first reply
\* proposed the banner peek
ScenarioBegun ==
    /\ scan.parsed_open = <<[port |-> 3306, proto |-> "tcp", service |-> "mysql"]>>
    /\ gated # <<>>
    /\ gated[1].step = 1
    /\ gated[1].command = NC_MYSQL

\* the second reply has arrived and sets done = true
SecondReplyDone ==
    /\ ScenarioBegun
    /\ pc = "REPLY"
    /\ step = 2
    /\ SignalsDone(content)

\* the gate admitted the command, it ran once, and its result was in the
\* transcript sent with the second query
ScenarioFirstIteration ==
    ScenarioBegun =>
        /\ gated[1].safe
        /\ Cardinality({i \in 1..Len(executed) : executed[i].command = NC_MYSQL
                                                   /\ executed[i].step = 1}) <= 1
        /\ step >= 2 =>
              /\ executed # <<>>
              /\ executed[1] = [step |-> 1, command |-> NC_MYSQL, run |-> executed[1].run]
              /\ messages[5].kind = "result"
              /\ messages[5].command = NC_MYSQL
        /\ Len(chats) >= 2 => chats[2] = [kind |-> "action", step |-> 2, sent |-> 5]

\* the second reply ends the loop with model_signalled_done, and the summary
\* is then requested and recorded once, at iteration 2
ScenarioSecondIteration ==
    /\ SecondReplyDone =>
          /\ pc' = "SUMMARY"
          /\ reason' = "model_signalled_done"
          /\ step' = 2
          /\ Last(messages').kind = "closing"
          /\ executed' = executed
    /\ (ScenarioBegun /\ pc = "SUMMARY" /\ step = 2 /\ reason = "model_signalled_done") =>
          /\ pc' = "DONE"
          /\ reason' = reason
          /\ step' = 2
          /\ Last(chats') = [kind |-> "summary", step |-> 2, sent |-> 6]
          /\ Count(files', "final_summary.json") = 1
          /\ Len(executed') = 1

\* C18: when the scan shows the one open port 3306/tcp mysql, the first reply
\* proposes echo | nc -v -w 3 10.0.0.5 3306 and the second sets done = true,
\* the gate admits the command, it runs once, its outcome is appended before
\* the second query, and the run requests and records one summary and ends
\* at iteration 2 with reason model_signalled_done.
C18_MysqlScenario == []ScenarioFirstIteration /\ [][ScenarioSecondIteration]_vars

\* s is not empty and neither begins nor ends with whitespace
IsTrimmed(s) == s # "" /\ Ch(s, 1) \notin WS /\ Ch(s, Len(s)) \notin WS

\* C19: in every iteration the string given to is_safe, the string given to
\* run_cmd and the string named in the result or blocked message are the
\* same: the trimmed command field of the action parsed from the reply.
C19_OneCommandString ==
    /\ \A k \in 1..Len(gated) :
          /\ IsTrimmed(gated[k].command)
          /\ gated[k].step < step => messages[4 + gated[k].step].command = gated[k].command
    /\ \A i \in 1..Len(executed) :
          /\ messages[4 + executed[i].step].kind = "result"
          /\ messages[4 + executed[i].step].command = executed[i].command
          /\ \E k \in 1..Len(gated) :
                gated[k].step = executed[i].step /\ gated[k].command = executed[i].command
    /\ pc = "EXEC" =>
          /\ command = Turns[content].command
          /\ Last(gated) = [step |-> step, command |-> command, safe |-> TRUE]
    /\ (pc = "LOOP" /\ step > 1 /\ Last(messages).kind \in {"result", "blocked_by_policy"}) =>
          /\ Last(messages).command = Turns[content].command
          /\ Last(gated) = [step |-> step - 1, command |-> Turns[content].command,
                             safe |-> Last(messages).kind = "result"]
          /\ Last(messages).kind = "result" =>
                /\ Last(executed).step = step - 1
                /\ Last(executed).command = Turns[content].command

\* the reply held the curl command between blanks; it was gated, run and
\* named in the result without them
C19_Witness ==
    /\ pc = "LOOP"
    /\ step = 2
    /\ content = "Next: {\"command\":\" curl -I -m 5 http://10.0.0.5:80 \"} ok"
    /\ gated = <<[step |-> 1, command |-> "curl -I -m 5 http://10.0.0.5:80", safe |-> TRUE]>>
    /\ executed[1].command = "curl -I -m 5 http://10.0.0.5:80"
    /\ messages[5].command = "curl -I -m 5 http://10.0.0.5:80"

\* C20: the transcript holds one system message, its first, and every other
\* message has role user: the replies of the model are never appended, so no
\* query is sent an assistant message.
C20_SystemThenUsers ==
    /\ messages # <<>> =>
          /\ messages[1].role = "system"
          /\ \A n \in 2..Len(messages) : messages[n].role = "user"
    /\ \A k \in 1..Len(chats) :
          /\ chats[k].sent >= 4
          /\ chats[k].sent <= Len(messages)
          /\ \A n \in 1..chats[k].sent : messages[n].role # "assistant"

\* the summary query is about to be sent, after two replies of the model
C20_Witness ==
    /\ pc = "SUMMARY"
    /\ Len(chats) = 2
    /\ Len(messages) = 6
    /\ messages[1].role = "system"
    /\ messages[6].role = "user"

\* ------------------------------------------------------------------------
\* Functions called on their own: main stays where it is
\* ------------------------------------------------------------------------

mainvars == <<step, messages, content, command, scan, final_text, chats, gated,
              executed, files, reason, varied, fresh, last_run, Turns, scans>>

Parked ==
    /\ step = 0
    /\ messages = <<>>
    /\ content = ""
    /\ command = ""
    /\ scan = [returncode |-> "", stdout |-> "", stderr |-> "", parsed_open |-> <<>>]
    /\ final_text = ""
    /\ chats = <<>>
    /\ gated = <<>>
    /\ executed = <<>>
    /\ files = <<>>
    /\ reason = ""
    /\ varied = 0
    /\ fresh = FALSE
    /\ last_run = Completed(0, "", "")
    /\ Turns = <<>>
    /\ scans = <<>>

\* whitespace around a command
Pads == {"", " ", "\t", "  ", " \n", "\r\n"}

\* commands, bare shell names among them
GateCores == {"", "bash", "sh", "Bash", "bash -i", "sh -c id", "shx", "ba sh", "id",
              "rm -rf /tmp/x"}

GateInputs == {l \o c \o r : l \in Pads, c \in GateCores, r \in Pads}

GateInit ==
    /\ pc = "CALL"
    /\ arg \in GateInputs
    /\ ret = FALSE
    /\ Parked

\* is_safe(cmd), lines 23-28
GateCall ==
    /\ pc = "CALL"
    /\ ret' = is_safe(arg)
    /\ pc' = "RETURNED"
    /\ UNCHANGED <<arg, mainvars>>

GateSpec == GateInit /\ [][GateCall]_vars

\* s is empty or holds whitespace only
IsBlank(s) == \A i \in 1..Len(s) : Ch(s, i) \in WS

\* s is bash or sh, with nothing but whitespace before and after
IsBareShell(s) ==
    \E i \in 1..Len(s) : \E j \in i..Len(s) :
        /\ SubSeq(s, i, j) \in {"bash", "sh"}
        /\ IsBlank(SubSeq(s, 1, i - 1))
        /\ IsBlank(SubSeq(s, j + 1, Len(s)))

\* C13: is_safe returns BLOCKED for every empty or whitespace-only string and
\* for every command that is a bare shell name inside any whitespace; it is
\* these two rules that block them, for the deny-list matches none of them.
C13_BlankAndBareShellBlocked ==
    (pc = "RETURNED" /\ (IsBlank(arg) \/ IsBareShell(arg))) =>
        /\ ret = FALSE
        /\ ~Search(DANGEROUS_PATTERNS, arg)

\* sh between a tab and a line end was classified
C13_Witness ==
    /\ pc = "RETURNED"
    /\ arg = "\tsh \n"
    /\ ret = FALSE

\* lines of a scan's output
NmapLines ==
    { "22/tcp open ssh",
      "  53/udp\topen   domain  ",
      "0080/tcp open http Apache httpd",
      "80/tcp filtered http",
      "443/tcp closed https",
      "25/tcp open|filtered smtp",
      "22/TCP open ssh",
      "3306/tcp open",
      "PORT STATE SERVICE",
      "" }

MaxLines == 2

\* the outputs of at most MaxLines lines
NmapInputs == UNION {[1..n -> NmapLines] : n \in 0..MaxLines}

\* "\n".join(lines)
RECURSIVE JoinLines(_, _)
JoinLines(lines, n) ==
    IF n > Len(lines) THEN ""
    ELSE lines[n] \o (IF n < Len(lines) THEN "\n" ELSE "") \o JoinLines(lines, n + 1)

NmapInit ==
    /\ pc = "CALL"
    /\ arg \in NmapInputs
    /\ ret = <<>>
    /\ Parked

\* parse_nmap_text(stdout), lines 55-65
NmapCall ==
    /\ pc = "CALL"
    /\ ret' = parse_nmap_text(JoinLines(arg, 1))
    /\ pc' = "RETURNED"
    /\ UNCHANGED <<arg, mainvars>>

\* parse_nmap_text on the same text once more
NmapCallAgain ==
    /\ pc = "RETURNED"
    /\ ret' = parse_nmap_text(JoinLines(arg, 1))
    /\ pc' = "AGAIN"
    /\ UNCHANGED <<arg, mainvars>>

NmapNext == NmapCall \/ NmapCallAgain

NmapSpec == NmapInit /\ [][NmapNext]_vars

\* the pieces of s between runs of whitespace, from position i on
RECURSIVE Words(_, _)
Words(s, i) ==
    IF i > Len(s) THEN <<>>
    ELSE IF Ch(s, i) \in WS THEN Words(s, i + 1)
    ELSE LET stop == SetMin({j \in (i + 1)..(Len(s) + 1) : j > Len(s) \/ Ch(s, j) \in WS})
         IN  <<SubSeq(s, i, stop - 1)>> \o Words(s, stop)

\* the number that the decimal digits of s write
RECURSIVE Decimal(_)
Decimal(s) ==
    IF s = "" THEN 0
    ELSE 10 * Decimal(SubSeq(s, 1, Len(s) - 1))
         + (CHOOSE d \in 0..9 : Ch(DIGITS, d + 1) = Ch(s, Len(s)))

IsDigits(s) == s # "" /\ \A i \in 1..Len(s) : Ch(s, i) \in CharsOf(DIGITS)

\* the line begins <port>/<tcp|udp>, whitespace, open, whitespace, <service>
OpenShape(line) ==
    LET w == Words(line, 1) IN
    /\ Len(w) >= 3
    /\ Len(w[1]) >= 5
    /\ IsDigits(SubSeq(w[1], 1, Len(w[1]) - 4))
    /\ SubSeq(w[1], Len(w[1]) - 3, Len(w[1])) \in {"/tcp", "/udp"}
    /\ w[2] = "open"

OpenRecord(line) ==
    LET w == Words(line, 1) IN
    [port    |-> Decimal(SubSeq(w[1], 1, Len(w[1]) - 4)),
     proto   |-> SubSeq(w[1], Len(w[1]) - 2, Len(w[1])),
     service |-> w[3]]

\* one record per line of the open shape, in line order
RECURSIVE OpenRecords(_, _)
OpenRecords(lines, n) ==
    IF n > Len(lines) THEN <<>>
    ELSE (IF OpenShape(lines[n]) THEN <<OpenRecord(lines[n])>> ELSE <<>>)
         \o OpenRecords(lines, n + 1)

\* C14: parse_nmap_text returns one record (port as integer, protocol,
\* service token) for each line that, trimmed, begins with the shape
\* <port>/<tcp|udp> open <service>, in line order, and none for any other
\* line; no lines give no records; parsing the text again gives the same.
C14_OneRecordPerOpenLine ==
    pc \in {"RETURNED", "AGAIN"} =>
        /\ ret = OpenRecords(arg, 1)
        /\ arg = <<>> => ret = <<>>

\* the udp line inside whitespace after a filtered line, parsed twice
C14_Witness ==
    /\ pc = "AGAIN"
    /\ arg = <<"80/tcp filtered http", "  53/udp\topen   domain  ">>
    /\ ret = <<[port |-> 53, proto |-> "udp", service |-> "domain"]>>

\* n times the character c
RECURSIVE Fill(_, _)
Fill(c, n) ==
    IF n = 0 THEN ""
    ELSE Fill(c, n \div 2) \o Fill(c, n \div 2) \o (IF n % 2 = 1 THEN c ELSE "")

\* sizes of an output around the limits in use
OutputSizes == {0, 1, 2, 5, 6, 17, 7999, 8000, 8001, 8012, 9000}

\* outputs of these sizes, one of them ending in the marker's first character
Outputs ==
    {Fill("a", n) : n \in OutputSizes}
        \cup {Fill("b", n - 1) \o ELLIPSIS : n \in OutputSizes \ {0}}

\* the limit of lines 196-197 and smaller ones
Limits == {0, 1, 5, TRUNCATE_LIMIT}

TruncateInit ==
    /\ pc = "CALL"
    /\ arg \in [s : Outputs, limit : Limits]
    /\ ret = <<>>
    /\ Parked

\* truncate(s, limit), lines 49-52
TruncateCall ==
    /\ pc = "CALL"
    /\ ret' = <<truncate(arg.s, arg.limit)>>
    /\ pc' = "RETURNED"
    /\ UNCHANGED <<arg, mainvars>>

\* truncate applied to its own result with the same limit
TruncateAgain ==
    /\ pc = "RETURNED"
    /\ ret' = Append(ret, truncate(ret[1], arg.limit))
    /\ pc' = "AGAIN"
    /\ UNCHANGED <<arg, mainvars>>

\* lines 193-201 for a command that printed arg.s on stdout and on stderr
ResultCall ==
    /\ pc = "CALL"
    /\ ret' = <<ResultMessage("id", Outcome(Completed(0, arg.s, arg.s), TIMEOUT_SEC))>>
    /\ pc' = "MESSAGE"
    /\ UNCHANGED <<arg, mainvars>>

TruncateNext == TruncateCall \/ TruncateAgain \/ ResultCall

TruncateSpec == TruncateInit /\ [][TruncateNext]_vars

MARKER_SIZE == 12

\* t is s when s has at most limit characters, and otherwise the first limit
\* characters of s followed by the marker
IsTruncationOf(t, s, limit) ==
    IF Len(s) <= limit THEN t = s
    ELSE /\ Len(t) = limit + MARKER_SIZE
         /\ SubSeq(t, 1, limit) = SubSeq(s, 1, limit)
         /\ SubSeq(t, limit + 1, limit + 1) = ELLIPSIS
         /\ SubSeq(t, limit + 2, Len(t)) = "[truncated]"

\* C16: truncate(s, limit) is s when its size is at most limit and otherwise
\* the first limit characters of s followed by the marker; the stdout and the
\* stderr of a result message have at most 8000 characters plus the marker's;
\* truncating the result again with the same limit changes nothing.
C16_TruncateBounds ==
    /\ pc \in {"RETURNED", "AGAIN"} =>
          /\ IsTruncationOf(ret[1], arg.s, arg.limit)
          /\ Len(ret[1]) <= arg.limit + MARKER_SIZE
    /\ pc = "AGAIN" => ret[2] = ret[1]
    /\ pc = "MESSAGE" =>
          /\ IsTruncationOf(ret[1].stdout, arg.s, 8000)
          /\ IsTruncationOf(ret[1].stderr, arg.s, 8000)
          /\ Len(ret[1].stdout) <= 8000 + MARKER_SIZE
          /\ Len(ret[1].stderr) <= 8000 + MARKER_SIZE

\* an output of 9000 characters cut at 8000 and cut again
C16_Witness ==
    /\ pc = "AGAIN"
    /\ Len(arg.s) = 9000
    /\ arg.limit = 8000
    /\ Len(ret[2]) = 8012

====
